---- MODULE Spec2Model ----
(***************************************************************************)
(* Model of OPCUAClient (src/ui/scada_dialog.py): the worker coroutine     *)
(* _run_client (connect / resolve / poll / reconcile / health / backoff),  *)
(* the caller-thread API write_value, read_value and stop, the scheduled   *)
(* _write_async and _read_async coroutines, the slots of ScadaDialog and   *)
(* of PopupDialog (src/ui/popup_dialog.py) that receive the client's       *)
(* signals, and the OPC UA server as the environment.                      *)
(*                                                                         *)
(* Python dicts are functions whose DOMAIN is the set of keys.  The worker *)
(* position pc names the source line the coroutine is about to execute.   *)
(* Steps of the worker that touch state shared with the caller thread      *)
(* (current_values, write_timestamps) are separate actions, so that the    *)
(* caller thread can be interleaved between them as under CPython.         *)
(***************************************************************************)
EXTENDS Integers, Sequences, FiniteSets, TLC

\* ---------------------------------------------------------------- bounds
MaxTime == 12          \* the clock (seconds) stops advancing here
MaxWrites == 2         \* write_value calls the caller makes in one behaviour
FailCap == 1           \* connection_fail_count saturates here (the code only tests > 0)
EmitCap == 2           \* the observer emit_count saturates here
MaxBackoffTime == 56   \* the clock's horizon where the backoff is followed
OutageWrites == 1      \* write_value calls where the connection may fail

\* ------------------------------------------------------ program constants
write_timeout == 10    \* self.write_timeout
max_poll_fail == 3     \* "poll_fail_count >= 3"
delay_floor == 2       \* reconnect_delay = 2
delay_step == 1        \* reconnect_delay + 1
delay_ceiling == 10    \* min(..., 10)
poll_period == 1       \* asyncio.sleep(1)

\* ----------------------------------------------------------------- values
Values == {"false", "true"}
None == "None"

VARIABLES
    \* OPCUAClient fields
    tag_list, running, nodes, client, current_values, write_timestamps,
    last_emitted_values, is_connected, connection_fail_count,
    \* locals of _run_client
    pc, reconnect_delay, poll_fail_count, updates, current_time,
    poll_success, idx, server_value, cached_value, write_time, wake,
    \* caller thread inside write_value
    caller,
    \* coroutines scheduled on the worker's event loop by write_value
    pending_writes,
    \* environment: the server's tag values and the wall clock
    server, now,
    \* ScadaDialog (the UI thread) and the write_failed_signal events queued
    \* for PopupDialog._on_write_failed
    ui, write_failed,
    \* observers
    last_health, dup_health, slept_backoff, writes_left, emit_count, clean_write,
    superseded, cycle_reads, fail_run, conn_reads, fail_streak, before_outage

vars == <<tag_list, running, nodes, client, current_values, write_timestamps,
          last_emitted_values, is_connected, connection_fail_count,
          pc, reconnect_delay, poll_fail_count, updates, current_time,
          poll_success, idx, server_value, cached_value, write_time, wake,
          caller, pending_writes, server, now, ui, write_failed,
          last_health, dup_health, slept_backoff, writes_left, emit_count,
          clean_write, superseded, cycle_reads, fail_run, conn_reads,
          fail_streak, before_outage>>

\* the tag names of self.tag_list
Tags == {tag_list[i] : i \in 1..Len(tag_list)}

\* ---------------------------------------------------------- dict helpers
EmptyDict == <<>>
DictSet(d, k, v) == [x \in (DOMAIN d) \cup {k} |-> IF x = k THEN v ELSE d[x]]
DictDel(d, k) == [x \in (DOMAIN d) \ {k} |-> d[x]]
Min(a, b) == IF a < b THEN a ELSE b

\* self.nodes.items(): insertion order, which is the order of tag_list
NodeSeq == SelectSeq(tag_list, LAMBDA t : t \in DOMAIN nodes)
CurTag == NodeSeq[idx]

IdleCaller == [at |-> "idle", tag |-> None, value |-> None]
\* ------------------------------------------------------------------- Init
\* OPCUAClient.__init__ and ScadaDialog.__init__; the thread has not been
\* started (pc = "init").  tl is the tag list, w the number of write_value
\* calls the caller makes, watch the tags the observer before_outage
\* follows, slots the slots connected to the client's signals, alarms the
\* tags of tl that are a room's alarm status.
InitUI(tl, w, watch, slots, alarms) ==
    /\ tag_list = tl
    /\ running = TRUE
    /\ nodes = EmptyDict
    /\ client = "none"
    /\ current_values = EmptyDict
    /\ write_timestamps = EmptyDict
    /\ last_emitted_values = EmptyDict
    /\ is_connected = FALSE
    /\ connection_fail_count = 0
    /\ pc = "init"
    /\ reconnect_delay = delay_floor
    /\ poll_fail_count = 0
    /\ updates = EmptyDict
    /\ current_time = 0
    /\ poll_success = FALSE
    /\ idx = 1
    /\ server_value = None
    /\ cached_value = None
    /\ write_time = 0
    /\ wake = 0
    /\ caller = IdleCaller
    /\ pending_writes = <<>>
    /\ server \in [Tags -> Values]
    /\ now = 0
    /\ last_health = "none"
    /\ dup_health = FALSE
    /\ slept_backoff = FALSE
    /\ writes_left = w
    /\ emit_count = [t \in {tl[i] : i \in 1..Len(tl)} |-> 0]
    /\ clean_write = [t \in {tl[i] : i \in 1..Len(tl)} |-> None]
    /\ superseded = [t \in {tl[i] : i \in 1..Len(tl)} |-> None]
    /\ cycle_reads = 0
    /\ fail_run = 0
    /\ conn_reads = 0
    /\ fail_streak = 0
    /\ before_outage = [t \in watch |-> None]
    /\ ui = [connected |-> slots,
             alarm_tags |-> alarms,
             latest_values |-> EmptyDict,
             alarm_status |-> [t \in alarms |-> FALSE],
             is_disconnected |-> FALSE,
             has_alarm |-> FALSE,
             is_muted |-> FALSE,
             mute_by_user |-> FALSE,
             playing |-> FALSE,
             empty_batches |-> FALSE]
    /\ write_failed = <<>>

\* the client on its own: no slot is connected to its signals
InitWith(tl, w, watch) == InitUI(tl, w, watch, {}, {})

Init == InitWith(<<"A", "B">>, MaxWrites, {"A", "B"})

\* groups of variables left alone
workerLocals == <<reconnect_delay, poll_fail_count, updates, current_time,
                  poll_success, idx, server_value, cached_value, write_time, wake>>
sharedDicts == <<current_values, write_timestamps>>
callerVars == <<caller, pending_writes, writes_left>>
envVars == <<server, now>>
healthVars == <<is_connected, last_health, dup_health>>
cycleObs == <<cycle_reads, fail_run, conn_reads, slept_backoff, fail_streak,
              before_outage>>
writeObs == <<emit_count, clean_write, superseded>>

\* ------------------------------------------------- the UI thread's slots
\* The slots of ScadaDialog as functions of its state u.  A signal emitted
\* by the worker is delivered to the slots connected to it.
\* _stop_alarm_sound / _play_alarm_sound
StopAlarmSound(u) == [u EXCEPT !.playing = FALSE]
PlayAlarmSound(u) == IF u.is_muted THEN u ELSE [u EXCEPT !.playing = TRUE]

\* any(card.alarm_status for card in self.room_cards.values())
HasRoomAlarm(u) == \E r \in DOMAIN u.alarm_status : u.alarm_status[r]

\* _update_alarm_state: the alarm starts (mute reset, sound played) on the
\* change of has_alarm from False to True, and stops on the change back
UpdateAlarmState(u, has_room_alarm) ==
    LET new_alarm_state == has_room_alarm \/ u.is_disconnected
    IN  IF new_alarm_state /\ ~u.has_alarm
          THEN PlayAlarmSound([u EXCEPT !.has_alarm = TRUE,
                                        !.is_muted = FALSE,
                                        !.mute_by_user = FALSE])
          ELSE IF ~new_alarm_state /\ u.has_alarm
                 THEN StopAlarmSound([u EXCEPT !.has_alarm = FALSE])
                 ELSE u

\* self.latest_values.update(updates)
MergeBatch(d, batch) ==
    [t \in (DOMAIN d) \cup (DOMAIN batch) |-> IF t \in DOMAIN batch THEN batch[t] ELSE d[t]]

\* _on_opcua_update: store the values, card.set_alarm_status(bool(value))
\* for the alarm-status tags of the batch, then _update_alarm_state; the
\* observer empty_batches records a call with an empty dict
OnOpcuaUpdate(u, batch) ==
    LET stored == [u EXCEPT
            !.empty_batches = (u.empty_batches \/ batch = EmptyDict),
            !.latest_values = MergeBatch(u.latest_values, batch),
            !.alarm_status = [r \in DOMAIN u.alarm_status |->
                                 IF r \in DOMAIN batch THEN batch[r] = "true"
                                                       ELSE u.alarm_status[r]]]
    IN  UpdateAlarmState(stored, HasRoomAlarm(stored))

\* _on_connection_lost
OnConnectionLost(u) ==
    LET marked == [u EXCEPT !.is_disconnected = TRUE]
    IN  UpdateAlarmState(marked, HasRoomAlarm(marked) \/ marked.is_disconnected)

\* _on_connection_restored
OnConnectionRestored(u) ==
    LET marked == [u EXCEPT !.is_disconnected = FALSE]
    IN  UpdateAlarmState(marked, HasRoomAlarm(marked))

\* _on_mute_clicked
OnMuteClicked(u) == [StopAlarmSound(u) EXCEPT !.is_muted = TRUE, !.mute_by_user = TRUE]

\* update_signal.emit(batch), connection_lost_signal.emit() and
\* connection_restored_signal.emit() reach ScadaDialog when _start_opcua_client
\* connected its slots
EmitUpdate(u, batch) ==
    IF "_on_opcua_update" \in u.connected THEN OnOpcuaUpdate(u, batch) ELSE u
EmitLost(u) ==
    IF "_on_connection_lost" \in u.connected THEN OnConnectionLost(u) ELSE u
EmitRestored(u) ==
    IF "_on_connection_restored" \in u.connected THEN OnConnectionRestored(u) ELSE u

\* faulty variant: the signal is emitted twice
EmitWriteFailedTwice(q, t) == Append(Append(q, t), t)

\* write_failed_signal.emit(tag_name): queued for the UI thread when a popup
\* connected its slot
EmitWriteFailed(q, t) == Append(q, t)

\* ---------------------------------------------------------- health signals
\* connection_lost_signal.emit() / connection_restored_signal.emit() as seen
\* by the observers: the last signal, and whether one was ever repeated
EmitHealth(sig) ==
    /\ last_health' = sig
    /\ dup_health' = (dup_health \/ last_health = sig)

\* "self.is_connected = True; self.connection_restored_signal.emit()"
MarkRestored == is_connected' = TRUE /\ EmitHealth("restored")

\* faulty variant: the signal is emitted but the flag is left alone
MarkLostKeepFlag == UNCHANGED is_connected /\ EmitHealth("lost")

\* "self.is_connected = False; self.connection_lost_signal.emit()"
MarkLost == is_connected' = FALSE /\ EmitHealth("lost")

\* faulty variant: connect() does not mark the connection restored; the poll loop's
\* first successful cycle after a failure does
ConnectHealthDeferred == UNCHANGED healthVars

\* after connect(): "if not self.is_connected:" mark the connection restored
ConnectHealth == IF ~is_connected THEN MarkRestored ELSE UNCHANGED healthVars

\* ------------------------------------------------------------- the worker
\* run(): create the event loop, enter _run_client (reconnect_delay = 2)
Start ==
    /\ pc = "init"
    /\ pc' = "outer"
    /\ reconnect_delay' = delay_floor
    /\ UNCHANGED <<tag_list, ui, write_failed, running, nodes, client, sharedDicts, last_emitted_values,
                   healthVars, connection_fail_count, poll_fail_count, updates,
                   current_time, poll_success, idx, server_value, cached_value,
                   write_time, wake, callerVars, envVars, writeObs, cycleObs>>

\* "while self.running: self.client = Client(url=...)".  The Node objects in
\* self.nodes stay bound to the Client they were obtained from.
OuterLoop ==
    /\ pc = "outer"
    /\ IF running
         THEN /\ client' = "new"
              /\ nodes' = [t \in DOMAIN nodes |-> "old"]
              /\ pc' = "connect"
         ELSE /\ pc' = "done"
              /\ UNCHANGED <<client, nodes>>
    /\ UNCHANGED <<tag_list, ui, write_failed, running, sharedDicts, last_emitted_values, healthVars,
                   connection_fail_count, workerLocals, callerVars, envVars,
                   writeObs, cycleObs>>

\* "self.nodes[tag_name] = node" for the tags ok whose get_node returned;
\* the entries of the other tags are left as they are
ResolveNodes(ok) == [t \in (DOMAIN nodes) \cup ok |-> IF t \in ok THEN "cur" ELSE nodes[t]]

\* get_node for every tag of tag_list
ResolvedNodes == ResolveNodes(Tags)

\* faulty variant: only the tags never emitted before are set to None
ResetEmittedKeep(le, ns) ==
    [t \in (DOMAIN le) \cup (DOMAIN ns) |-> IF t \in DOMAIN le THEN le[t] ELSE None]

\* "for tag_name in self.nodes.keys(): self.last_emitted_values[tag_name] = None"
ResetEmitted(le, ns) ==
    [t \in (DOMAIN le) \cup (DOMAIN ns) |-> IF t \in DOMAIN ns THEN None ELSE le[t]]

\* the observer before_outage: what was last emitted for a tag when the
\* connection was replaced
SnapshotEmitted ==
    before_outage' = [t \in DOMAIN before_outage |->
        IF t \in DOMAIN last_emitted_values /\ last_emitted_values[t] # None
          THEN last_emitted_values[t] ELSE before_outage[t]]

\* connect() returned: mark connected, resolve the tags (get_node returns
\* for the tags ok), reset last_emitted_values and the backoff, enter the
\* poll loop
ConnectOkWith(ok) ==
    /\ pc = "connect"
    /\ client' = "connected"
    /\ ConnectHealth
    /\ nodes' = ResolveNodes(ok)
    /\ last_emitted_values' = ResetEmitted(last_emitted_values, ResolveNodes(ok))
    /\ reconnect_delay' = delay_floor
    /\ poll_fail_count' = 0
    /\ pc' = "poll"
    /\ fail_run' = 0
    /\ conn_reads' = 0
    /\ slept_backoff' = FALSE
    /\ fail_streak' = 0
    /\ SnapshotEmitted
    /\ ui' = IF ~is_connected THEN EmitRestored(ui) ELSE ui
    /\ UNCHANGED <<tag_list, write_failed, running, sharedDicts, connection_fail_count, updates,
                   current_time, poll_success, idx, server_value, cached_value,
                   write_time, wake, callerVars, envVars, writeObs, cycle_reads>>

\* connect() returned and every tag was resolved
ConnectOk == ConnectOkWith(Tags)

\* connect() returned and get_node raised for at least one tag
ConnectOkPartial == \E ok \in (SUBSET Tags) \ {Tags} : ConnectOkWith(ok)

\* faulty variant: the loss is signalled whatever is_connected says
ConnectFailAlwaysLost ==
    /\ pc = "connect"
    /\ MarkLost
    /\ ui' = EmitLost(ui)
    /\ pc' = "disconnect"
    /\ slept_backoff' = FALSE
    /\ fail_streak' = fail_streak + 1
    /\ UNCHANGED <<tag_list, write_failed, running, nodes, client, sharedDicts,
                   last_emitted_values, connection_fail_count, workerLocals,
                   callerVars, envVars, writeObs, cycle_reads, fail_run,
                   conn_reads, before_outage>>

\* connect() raised: "except Exception" -- signal the loss if connected
ConnectFail ==
    /\ pc = "connect"
    /\ IF is_connected THEN MarkLost /\ ui' = EmitLost(ui)
                       ELSE UNCHANGED <<healthVars, ui>>
    /\ pc' = "disconnect"
    /\ slept_backoff' = FALSE
    /\ fail_streak' = fail_streak + 1
    /\ UNCHANGED <<tag_list, write_failed, running, nodes, client, sharedDicts, last_emitted_values,
                   connection_fail_count, workerLocals, callerVars, envVars,
                   writeObs, cycle_reads, fail_run, conn_reads, before_outage>>

\* await asyncio.wait_for(self.client.disconnect(), timeout=2.0); whatever
\* it raises is swallowed
Disconnect ==
    /\ pc = "disconnect"
    /\ client' = "closed"
    /\ pc' = "backoff"
    /\ UNCHANGED <<tag_list, ui, write_failed, running, nodes, sharedDicts, last_emitted_values, healthVars,
                   connection_fail_count, workerLocals, callerVars, envVars,
                   writeObs, cycleObs>>

\* faulty variant: the except block ends in a break out of the outer loop
BackoffBreak ==
    /\ pc = "backoff"
    /\ pc' = "done"
    /\ UNCHANGED <<tag_list, ui, write_failed, running, nodes, client, sharedDicts, last_emitted_values,
                   healthVars, connection_fail_count, workerLocals, callerVars,
                   envVars, writeObs, cycleObs>>

\* faulty variant: the backoff sleep is taken whatever self.running says
BackoffSleepAlways ==
    /\ pc = "backoff"
    /\ pc' = "backoff_sleep"
    /\ wake' = now + reconnect_delay
    /\ UNCHANGED <<tag_list, ui, write_failed, running, nodes, client, sharedDicts,
                   last_emitted_values, healthVars, connection_fail_count,
                   reconnect_delay, poll_fail_count, updates, current_time,
                   poll_success, idx, server_value, cached_value, write_time,
                   callerVars, envVars, writeObs, cycleObs>>

\* "if self.running: await asyncio.sleep(reconnect_delay)"
BackoffStart ==
    /\ pc = "backoff"
    /\ IF running
         THEN pc' = "backoff_sleep" /\ wake' = now + reconnect_delay
         ELSE pc' = "outer" /\ UNCHANGED wake
    /\ UNCHANGED <<tag_list, ui, write_failed, running, nodes, client, sharedDicts, last_emitted_values,
                   healthVars, connection_fail_count, reconnect_delay,
                   poll_fail_count, updates, current_time, poll_success, idx,
                   server_value, cached_value, write_time, callerVars, envVars,
                   writeObs, cycleObs>>

\* faulty variant: the delay doubles
NextDelayDouble(d) == Min(2 * d, delay_ceiling)

\* "min(reconnect_delay + 1, 10)"
NextDelay(d) == Min(d + delay_step, delay_ceiling)

\* the sleep is over: reconnect_delay = min(reconnect_delay + 1, 10)
BackoffDone ==
    /\ pc = "backoff_sleep"
    /\ now >= wake
    /\ reconnect_delay' = NextDelay(reconnect_delay)
    /\ pc' = "outer"
    /\ wake' = 0
    /\ slept_backoff' = TRUE
    /\ UNCHANGED <<tag_list, ui, write_failed, running, nodes, client, sharedDicts, last_emitted_values,
                   healthVars, connection_fail_count, poll_fail_count, updates,
                   current_time, poll_success, idx, server_value, cached_value,
                   write_time, callerVars, envVars, writeObs, cycle_reads,
                   fail_run, conn_reads, fail_streak, before_outage>>
\* ---------------------------------------------------------- the poll loop
\* The write observers follow a write_value only until the cycle that
\* settles it: a new cycle forgets the tags that have no pending write.
ForgetSettled ==
    /\ emit_count' = [t \in DOMAIN emit_count |->
                        IF t \in DOMAIN current_values THEN emit_count[t] ELSE 0]
    /\ clean_write' = [t \in DOMAIN clean_write |->
                        IF t \in DOMAIN current_values THEN clean_write[t] ELSE None]
    /\ superseded' = [t \in DOMAIN superseded |->
                        IF t \in DOMAIN current_values THEN superseded[t] ELSE None]

\* "while self.running:": updates = {}, current_time = time.time(),
\* poll_success = False, then iterate self.nodes.items()
PollTop ==
    /\ pc = "poll"
    /\ IF running
         THEN /\ updates' = EmptyDict
              /\ current_time' = now
              /\ poll_success' = FALSE
              /\ idx' = 1
              /\ pc' = IF Len(NodeSeq) = 0 THEN "cycle_end" ELSE "read"
         ELSE /\ pc' = "outer"
              /\ UNCHANGED <<updates, current_time, poll_success, idx>>
    /\ cycle_reads' = 0
    /\ ForgetSettled
    /\ UNCHANGED <<tag_list, ui, write_failed, running, nodes, client, sharedDicts, last_emitted_values,
                   healthVars, connection_fail_count, reconnect_delay,
                   poll_fail_count, server_value, cached_value, write_time, wake,
                   callerVars, envVars, fail_run, conn_reads, slept_backoff,
                   fail_streak, before_outage>>

\* the for loop moves on to the next item of self.nodes, or ends; the
\* iteration's locals are dead until they are assigned again
Advance ==
    /\ IF idx < Len(NodeSeq)
         THEN idx' = idx + 1 /\ pc' = "read"
         ELSE idx' = idx /\ pc' = "cycle_end"
    /\ server_value' = None
    /\ cached_value' = None
    /\ write_time' = 0

\* "except Exception: self.connection_fail_count += 1" of the per-tag try
TagFailed == connection_fail_count' = Min(connection_fail_count + 1, FailCap)

\* "if should_emit and value_to_emit is not None: updates[tag] = ...;
\*  last_emitted_values[tag] = ..."
Record(t, value_to_emit, should_emit) ==
    IF should_emit /\ value_to_emit # None
      THEN /\ updates' = DictSet(updates, t, value_to_emit)
           /\ last_emitted_values' = DictSet(last_emitted_values, t, value_to_emit)
      ELSE UNCHANGED <<updates, last_emitted_values>>

\* server_value = await node.read_value() returned; poll_success = True
ReadOk ==
    /\ pc = "read"
    /\ server_value' = server[CurTag]
    /\ poll_success' = TRUE
    /\ pc' = "recon0"
    /\ cycle_reads' = 1
    /\ conn_reads' = 1
    /\ UNCHANGED <<tag_list, ui, write_failed, running, nodes, client, sharedDicts, last_emitted_values,
                   healthVars, connection_fail_count, reconnect_delay,
                   poll_fail_count, updates, current_time, idx, cached_value,
                   write_time, wake, callerVars, envVars, writeObs, fail_run,
                   slept_backoff, fail_streak, before_outage>>

\* faulty variant: a failed read ends the for loop
ReadFailAbort ==
    /\ pc = "read"
    /\ TagFailed
    /\ pc' = "cycle_end"
    /\ UNCHANGED <<tag_list, ui, write_failed, running, nodes, client, sharedDicts,
                   last_emitted_values, healthVars, reconnect_delay, poll_fail_count,
                   updates, current_time, poll_success, idx, server_value,
                   cached_value, write_time, wake, callerVars, envVars, writeObs,
                   cycleObs>>

\* await node.read_value() raised
ReadFail ==
    /\ pc = "read"
    /\ TagFailed
    /\ Advance
    /\ UNCHANGED <<tag_list, ui, write_failed, running, nodes, client, sharedDicts, last_emitted_values,
                   healthVars, reconnect_delay, poll_fail_count, updates,
                   current_time, poll_success, wake, callerVars, envVars,
                   writeObs, cycleObs>>

\* faulty variant: the server value is emitted only while nothing was emitted yet
ServerShouldEmitFirstOnly(last, sv) == last = None

\* case 2, no pending write: emit the server value when it changed
ServerShouldEmit(last, sv) == last # sv

\* "if tag_name in self.current_values:" -- else case 2
Recon0 ==
    /\ pc = "recon0"
    /\ IF CurTag \in DOMAIN current_values
         THEN /\ pc' = "recon1"
              /\ UNCHANGED <<idx, updates, last_emitted_values, server_value,
                             cached_value, write_time>>
         ELSE /\ Record(CurTag, server_value,
                        ServerShouldEmit(last_emitted_values[CurTag], server_value))
              /\ Advance
    /\ UNCHANGED <<tag_list, ui, write_failed, running, nodes, client, sharedDicts, healthVars,
                   connection_fail_count, reconnect_delay, poll_fail_count,
                   current_time, poll_success, wake, callerVars, envVars,
                   writeObs, cycleObs>>

\* cached_value = self.current_values[tag_name];
\* write_time = self.write_timestamps.get(tag_name, current_time)
Recon1 ==
    /\ pc = "recon1"
    /\ IF CurTag \in DOMAIN current_values
         THEN /\ cached_value' = current_values[CurTag]
              /\ write_time' = IF CurTag \in DOMAIN write_timestamps
                                 THEN write_timestamps[CurTag] ELSE current_time
              /\ pc' = "recon2"
              /\ UNCHANGED <<idx, connection_fail_count, server_value>>
         ELSE \* KeyError
              /\ TagFailed
              /\ Advance
    /\ UNCHANGED <<tag_list, ui, write_failed, running, nodes, client, sharedDicts, last_emitted_values,
                   healthVars, reconnect_delay, poll_fail_count, updates,
                   current_time, poll_success, wake, callerVars, envVars,
                   writeObs, cycleObs>>

\* elapsed = current_time - write_time
Elapsed(ct, wt) == ct - wt
\* "server_value == cached_value"
Confirmed(sv, cv) == sv = cv
\* faulty variant: off by one, ">=" for ">"
TimedOutEarly(elapsed) == elapsed >= write_timeout

\* "elapsed > self.write_timeout"
TimedOut(elapsed) == elapsed > write_timeout
\* write in progress: emit the cached value only when it differs from the
\* last emitted one
PendingShouldEmit(last, cv) == last # cv
\* confirmed or timed out: "should_emit = True"
SettledShouldEmit(last, sv) == TRUE

\* the three branches of case 1; a settled write first deletes
\* self.current_values[tag_name]
Recon2 ==
    /\ pc = "recon2"
    /\ IF Confirmed(server_value, cached_value)
          \/ TimedOut(Elapsed(current_time, write_time))
         THEN IF CurTag \in DOMAIN current_values
                THEN /\ current_values' = DictDel(current_values, CurTag)
                     /\ pc' = "recon3"
                     /\ UNCHANGED <<idx, connection_fail_count, updates,
                                    last_emitted_values, server_value,
                                    cached_value, write_time>>
                ELSE \* KeyError
                     /\ TagFailed
                     /\ Advance
                     /\ UNCHANGED <<current_values, updates, last_emitted_values>>
         ELSE /\ Record(CurTag, cached_value,
                        PendingShouldEmit(last_emitted_values[CurTag], cached_value))
              /\ Advance
              /\ UNCHANGED <<current_values, connection_fail_count>>
    /\ UNCHANGED <<tag_list, ui, write_failed, running, nodes, client, write_timestamps, healthVars,
                   reconnect_delay, poll_fail_count, current_time, poll_success,
                   wake, callerVars, envVars, writeObs, cycleObs>>

\* "if tag_name in self.write_timestamps: del ...; value_to_emit =
\*  server_value; should_emit = True" and the recording of the value
Recon3 ==
    /\ pc = "recon3"
    /\ write_timestamps' = DictDel(write_timestamps, CurTag)
    /\ Record(CurTag, server_value,
              SettledShouldEmit(last_emitted_values[CurTag], server_value))
    /\ Advance
    /\ UNCHANGED <<tag_list, ui, write_failed, running, nodes, client, current_values, healthVars,
                   connection_fail_count, reconnect_delay, poll_fail_count,
                   current_time, poll_success, wake, callerVars, envVars,
                   writeObs, cycleObs>>

\* faulty variant: the threshold is reached one cycle early
LostThresholdEarly(count, connected) == count >= max_poll_fail - 1 /\ connected

\* "poll_fail_count >= 3 and self.is_connected"
LostThreshold(count, connected) == count >= max_poll_fail /\ connected

\* update_signal.emit(updates) as seen by the observers: the batches that
\* carry, for a tag, the value of the write being followed
CountBatch(batch) ==
    emit_count' = [t \in DOMAIN emit_count |->
                     IF /\ t \in DOMAIN batch
                        /\ clean_write[t] # None
                        /\ batch[t] = clean_write[t]
                       THEN Min(emit_count[t] + 1, EmitCap)
                       ELSE emit_count[t]]

\* faulty variant: the poll loop goes on after the loss was signalled
LostExitStay == "sleep"

\* "break" after connection_lost_signal.emit(): the worker leaves the poll
\* loop and the try block for the test of the outer loop
LostExit == "outer"

\* faulty variant: the batch is emitted even when it is empty
EmitBatchAlways(u, batch) == EmitUpdate(u, batch)

\* "if updates: self.update_signal.emit(updates)"
EmitBatch(u, batch) == IF batch # EmptyDict THEN EmitUpdate(u, batch) ELSE u

\* after the for loop: health bookkeeping, "if updates: update_signal.emit",
\* then asyncio.sleep(1); the break leaves the poll loop and the try block.
\* The cycle's locals are dead until the next cycle assigns them; updates is
\* kept as the batch the cycle emitted.
CycleEnd ==
    /\ pc = "cycle_end"
    /\ fail_run' = IF cycle_reads = 0 THEN Min(fail_run + 1, max_poll_fail + 1) ELSE 0
    /\ IF ~poll_success
         THEN /\ poll_fail_count' = poll_fail_count + 1
              /\ UNCHANGED connection_fail_count
              /\ IF LostThreshold(poll_fail_count + 1, is_connected)
                   THEN /\ MarkLost
                        /\ ui' = EmitLost(ui)
                        /\ pc' = LostExit
                        /\ UNCHANGED <<wake, emit_count>>
                   ELSE /\ UNCHANGED healthVars
                        /\ CountBatch(updates)
                        /\ ui' = EmitBatch(ui, updates)
                        /\ pc' = "sleep"
                        /\ wake' = now + poll_period
         ELSE /\ poll_fail_count' = 0
              /\ IF connection_fail_count > 0
                   THEN /\ connection_fail_count' = 0
                        /\ IF ~is_connected
                             THEN /\ MarkRestored
                                  /\ ui' = EmitBatch(EmitRestored(ui), updates)
                             ELSE /\ UNCHANGED healthVars
                                  /\ ui' = EmitBatch(ui, updates)
                   ELSE /\ UNCHANGED <<connection_fail_count, healthVars>>
                        /\ ui' = EmitBatch(ui, updates)
              /\ CountBatch(updates)
              /\ pc' = "sleep"
              /\ wake' = now + poll_period
    /\ current_time' = 0
    /\ poll_success' = FALSE
    /\ idx' = 1
    /\ cycle_reads' = 0
    /\ before_outage' = [t \in DOMAIN before_outage |->
          IF t \in DOMAIN last_emitted_values /\ last_emitted_values[t] # None
            THEN None ELSE before_outage[t]]
    /\ UNCHANGED <<tag_list, write_failed, running, nodes, client, sharedDicts, last_emitted_values,
                   reconnect_delay, updates, server_value, cached_value,
                   write_time, callerVars, envVars, conn_reads, slept_backoff,
                   clean_write, superseded, fail_streak>>

\* await asyncio.sleep(1) is over
SleepDone ==
    /\ pc = "sleep"
    /\ now >= wake
    /\ pc' = "poll"
    /\ wake' = 0
    /\ UNCHANGED <<tag_list, ui, write_failed, running, nodes, client, sharedDicts, last_emitted_values,
                   healthVars, connection_fail_count, reconnect_delay,
                   poll_fail_count, updates, current_time, poll_success, idx,
                   server_value, cached_value, write_time, callerVars, envVars,
                   writeObs, cycleObs>>
\* ------------------------------------------------------ the caller thread
\* write_value's guard: "tag_name in self.nodes and self.client and
\* hasattr(self, 'loop')"
CanWrite(t) == t \in DOMAIN nodes /\ client # "none" /\ pc # "init"

\* faulty variant: a pending value is kept, the new one dropped (dict.setdefault)
StoreWriteKeepFirst(d, t, v) == IF t \in DOMAIN d THEN d ELSE DictSet(d, t, v)

\* "self.current_values[tag_name] = value": a newer write replaces the entry
StoreWrite(d, t, v) == DictSet(d, t, v)

\* faulty variant: write_value without its guard
WriteValueUnguarded(t, v) ==
    /\ caller.at = "idle"
    /\ writes_left > 0
    /\ writes_left' = writes_left - 1
    /\ current_values' = StoreWrite(current_values, t, v)
    /\ caller' = [at |-> "stamp", tag |-> t, value |-> v]
    /\ UNCHANGED <<tag_list, ui, write_failed, running, nodes, client, write_timestamps,
                   last_emitted_values, healthVars, connection_fail_count, pc,
                   workerLocals, pending_writes, envVars, writeObs, cycleObs>>

\* write_value(t, v) up to "self.current_values[tag_name] = value"
WriteValue(t, v) ==
    /\ caller.at = "idle"
    /\ writes_left > 0
    /\ writes_left' = writes_left - 1
    /\ IF CanWrite(t)
         THEN /\ current_values' = StoreWrite(current_values, t, v)
              /\ caller' = [at |-> "stamp", tag |-> t, value |-> v]
              /\ emit_count' = [emit_count EXCEPT ![t] = 0]
              /\ clean_write' = [clean_write EXCEPT ![t] =
                    IF /\ t \notin DOMAIN current_values
                       /\ last_emitted_values[t] = server[t]
                       /\ v # server[t]
                      THEN v ELSE None]
              /\ superseded' = [superseded EXCEPT ![t] =
                    IF t \in DOMAIN current_values /\ current_values[t] # v
                      THEN current_values[t] ELSE None]
         ELSE UNCHANGED <<current_values, caller, writeObs>>
    /\ UNCHANGED <<tag_list, ui, write_failed, running, nodes, client, write_timestamps, last_emitted_values,
                   healthVars, connection_fail_count, pc, workerLocals,
                   pending_writes, envVars, cycleObs>>

\* "self.write_timestamps[tag_name] = time.time()" and
\* run_coroutine_threadsafe(self._write_async(tag_name, value), self.loop)
WriteValueStamp ==
    /\ caller.at = "stamp"
    /\ write_timestamps' = DictSet(write_timestamps, caller.tag, now)
    /\ pending_writes' = Append(pending_writes, [tag |-> caller.tag, value |-> caller.value])
    /\ caller' = IdleCaller
    /\ UNCHANGED <<tag_list, ui, write_failed, running, nodes, client, current_values, last_emitted_values,
                   healthVars, connection_fail_count, pc, workerLocals, writes_left,
                   envVars, writeObs, cycleObs>>

\* stop(): self.running = False
Stop ==
    /\ running
    /\ running' = FALSE
    /\ UNCHANGED <<tag_list, ui, write_failed, nodes, client, sharedDicts, last_emitted_values,
                   healthVars, connection_fail_count, pc, workerLocals, callerVars,
                   envVars, writeObs, cycleObs>>

\* ------------------------------------ coroutines on the worker's event loop
\* the positions where _run_client awaits, so that the loop runs other tasks
Awaiting == pc \in {"connect", "read", "sleep", "disconnect", "backoff_sleep"}

RemoveAt(q, i) == [j \in 1..(Len(q) - 1) |-> IF j < i THEN q[j] ELSE q[j + 1]]

\* _write_async: await node.write_value(data_value) succeeded
WriteAsyncOk(i) ==
    /\ Awaiting
    /\ i \in DOMAIN pending_writes
    /\ server' = [server EXCEPT ![pending_writes[i].tag] = pending_writes[i].value]
    /\ pending_writes' = RemoveAt(pending_writes, i)
    /\ UNCHANGED <<tag_list, ui, write_failed, running, nodes, client, sharedDicts, last_emitted_values,
                   healthVars, connection_fail_count, pc, workerLocals, caller,
                   writes_left, now, writeObs, cycleObs>>

\* _write_async: the write raised; write_failed_signal.emit(tag_name)
WriteAsyncFail(i) ==
    /\ Awaiting
    /\ i \in DOMAIN pending_writes
    /\ pending_writes' = RemoveAt(pending_writes, i)
    /\ write_failed' = IF "_on_write_failed" \in ui.connected
                         THEN EmitWriteFailed(write_failed, pending_writes[i].tag)
                         ELSE write_failed
    /\ UNCHANGED <<tag_list, ui, running, nodes, client, sharedDicts, last_emitted_values,
                   healthVars, connection_fail_count, pc, workerLocals, caller,
                   writes_left, envVars, writeObs, cycleObs>>

\* read_value's guard: "tag_name in self.nodes and self.client"
CanRead(t) == t \in DOMAIN nodes /\ client # "none"

\* read_value(t): run_coroutine_threadsafe(self._read_async(t), self.loop)
\* and future.result(), which has no timeout; "return None" otherwise
ReadValue(t) ==
    /\ caller.at = "idle"
    /\ IF CanRead(t)
         THEN caller' = [at |-> "read", tag |-> t, value |-> None]
         ELSE UNCHANGED caller
    /\ UNCHANGED <<tag_list, ui, write_failed, running, nodes, client, sharedDicts,
                   last_emitted_values, healthVars, connection_fail_count, pc,
                   workerLocals, pending_writes, writes_left, envVars, writeObs,
                   cycleObs>>

\* _read_async ran on the worker's loop and returned (the value, or None
\* when the read raised); future.result() hands it to the caller.  The loop
\* runs the coroutine only while it is running and _run_client awaits.
ReadAsyncDone ==
    /\ Awaiting
    /\ caller.at = "read"
    /\ caller' = IdleCaller
    /\ UNCHANGED <<tag_list, ui, write_failed, running, nodes, client, sharedDicts,
                   last_emitted_values, healthVars, connection_fail_count, pc,
                   workerLocals, pending_writes, writes_left, envVars, writeObs,
                   cycleObs>>

\* ------------------------------------------------------------- the popup
\* PopupDialog._on_toggle_alarm(checked) on the UI thread, up to the first
\* statement of write_value: the popup stores the pending entry itself,
\* emits update_signal with the intended value (delivered at once, the
\* slot lives on the emitting thread) and calls write_value
OnToggleAlarm(t, v) ==
    /\ caller.at = "idle"
    /\ "_on_write_failed" \in ui.connected
    /\ writes_left > 0
    /\ writes_left' = writes_left - 1
    /\ current_values' = StoreWrite(current_values, t, v)
    /\ write_timestamps' = DictSet(write_timestamps, t, now)
    /\ ui' = EmitUpdate(ui, [x \in {t} |-> v])
    /\ caller' = IF CanWrite(t) THEN [at |-> "stamp", tag |-> t, value |-> v]
                               ELSE IdleCaller
    /\ UNCHANGED <<tag_list, write_failed, running, nodes, client, last_emitted_values,
                   healthVars, connection_fail_count, pc, workerLocals,
                   pending_writes, envVars, writeObs, cycleObs>>

\* "if tag_name in current_values: del current_values[tag_name]"
ForgetPending(d, t) == DictDel(d, t)

\* PopupDialog._on_write_failed(tag_name), run by the UI thread's event loop
\* for the oldest queued write_failed_signal
OnWriteFailed ==
    /\ caller.at = "idle"
    /\ write_failed # <<>>
    /\ current_values' = ForgetPending(current_values, Head(write_failed))
    /\ write_failed' = Tail(write_failed)
    /\ UNCHANGED <<tag_list, ui, running, nodes, client, write_timestamps,
                   last_emitted_values, healthVars, connection_fail_count, pc,
                   workerLocals, caller, pending_writes, writes_left, envVars,
                   writeObs, cycleObs>>

\* the operator presses the mute button
MuteClicked ==
    /\ ui' = OnMuteClicked(ui)
    /\ UNCHANGED <<tag_list, write_failed, running, nodes, client, sharedDicts,
                   last_emitted_values, healthVars, connection_fail_count, pc,
                   workerLocals, callerVars, envVars, writeObs, cycleObs>>

\* ------------------------------------------------------------ environment
\* the server's value of a tag changes on its own (an alarm, another client)
ServerChange(t, v) ==
    /\ server[t] # v
    /\ server' = [server EXCEPT ![t] = v]
    /\ UNCHANGED <<tag_list, ui, write_failed, running, nodes, client, sharedDicts, last_emitted_values,
                   healthVars, connection_fail_count, pc, workerLocals, callerVars,
                   now, writeObs, cycleObs>>

\* a second passes while the worker is in asyncio.sleep
Tick ==
    /\ now < MaxTime
    /\ pc \in {"sleep", "backoff_sleep"}
    /\ now < wake
    /\ now' = now + 1
    /\ UNCHANGED <<tag_list, ui, write_failed, running, nodes, client, sharedDicts, last_emitted_values,
                   healthVars, connection_fail_count, pc, workerLocals, callerVars,
                   server, writeObs, cycleObs>>

\* as Tick, for the specification that follows the backoff to its ceiling
LongTick ==
    /\ now < MaxBackoffTime
    /\ pc \in {"sleep", "backoff_sleep"}
    /\ now < wake
    /\ now' = now + 1
    /\ UNCHANGED <<tag_list, ui, write_failed, running, nodes, client, sharedDicts, last_emitted_values,
                   healthVars, connection_fail_count, pc, workerLocals, callerVars,
                   server, writeObs, cycleObs>>

\* a second passes while a network call (connect, read, disconnect) is awaited
NetDelay ==
    /\ now < MaxTime
    /\ pc \in {"connect", "read", "disconnect"}
    /\ now' = now + 1
    /\ UNCHANGED <<tag_list, ui, write_failed, running, nodes, client, sharedDicts, last_emitted_values,
                   healthVars, connection_fail_count, pc, workerLocals, callerVars,
                   server, writeObs, cycleObs>>

\* ----------------------------------------------------------- specification
Worker ==
    \/ Start \/ OuterLoop \/ ConnectOk \/ ConnectFail \/ Disconnect
    \/ BackoffStart \/ BackoffDone \/ PollTop \/ ReadOk \/ ReadFail
    \/ Recon0 \/ Recon1 \/ Recon2 \/ Recon3 \/ CycleEnd \/ SleepDone

Next ==
    \/ Worker
    \/ \E t \in Tags, v \in Values : WriteValue(t, v)
    \/ WriteValueStamp
    \/ Stop
    \/ \E i \in 1..MaxWrites : WriteAsyncOk(i)
    \/ \E i \in 1..MaxWrites : WriteAsyncFail(i)
    \/ \E t \in Tags, v \in Values : ServerChange(t, v)
    \/ Tick
    \/ NetDelay
    \/ ConnectOkPartial

Spec == Init /\ [][Next]_vars
\* The reconciler on a connection that stays up: one tag, the caller's
\* writes and their coroutines, the server changing under the poll loop.
WorkerConnected ==
    \/ Start \/ OuterLoop \/ ConnectOk \/ PollTop \/ ReadOk
    \/ Recon0 \/ Recon1 \/ Recon2 \/ Recon3 \/ CycleEnd \/ SleepDone

NextRecon ==
    \/ WorkerConnected
    \/ \E t \in Tags, v \in Values : WriteValue(t, v)
    \/ WriteValueStamp
    \/ \E i \in 1..MaxWrites : WriteAsyncOk(i)
    \/ \E i \in 1..MaxWrites : WriteAsyncFail(i)
    \/ \E t \in Tags, v \in Values : ServerChange(t, v)
    \/ Tick

SpecRecon == InitWith(<<"A">>, MaxWrites, {}) /\ [][NextRecon]_vars

\* Connection health: two tags, every network outcome, stop(), no writes
\* (so no pending entry is ever found by the poll loop).
WorkerNoWrites ==
    \/ Start \/ OuterLoop \/ ConnectOk \/ ConnectFail \/ Disconnect
    \/ BackoffStart \/ BackoffDone \/ PollTop \/ ReadOk \/ ReadFail
    \/ Recon0 \/ CycleEnd \/ SleepDone

NextHealth ==
    \/ WorkerNoWrites
    \/ Stop
    \/ \E t \in Tags, v \in Values : ServerChange(t, v)
    \/ Tick
    \/ NetDelay

SpecHealth == InitWith(<<"A", "B">>, 0, {}) /\ [][NextHealth]_vars

\* Reconnection with one tag: as SpecHealth, with the observer before_outage
\* following the tag.
SpecReconnect == InitWith(<<"A">>, 0, {"A"}) /\ [][NextHealth]_vars

\* The backoff: one tag, every network outcome, no writes, a clock that runs
\* long enough for reconnect_delay to reach its ceiling.
NextBackoff ==
    \/ WorkerNoWrites
    \/ LongTick

SpecBackoff == InitWith(<<"A">>, 0, {}) /\ [][NextBackoff]_vars

\* Pending writes across failures: one tag, a write and its coroutine,
\* every network outcome of the worker.
NextOutage ==
    \/ Worker
    \/ \E t \in Tags, v \in Values : WriteValue(t, v)
    \/ WriteValueStamp
    \/ \E i \in 1..MaxWrites : WriteAsyncOk(i)
    \/ \E i \in 1..MaxWrites : WriteAsyncFail(i)
    \/ Tick

SpecOutage == InitWith(<<"A">>, OutageWrites, {}) /\ [][NextOutage]_vars

\* Tag resolution: two tags, get_node may raise for any of them on any
\* connection, every network outcome, no writes.
NextResolve ==
    \/ WorkerNoWrites
    \/ ConnectOkPartial
    \/ Stop
    \/ Tick

SpecResolve == InitWith(<<"A", "B">>, 0, {}) /\ [][NextResolve]_vars

\* Termination after stop(): one tag, no writes.  The worker's own steps and
\* the clock are fair; a pending connect or read may stay pending for ever.
WorkerLocal ==
    \/ Start \/ OuterLoop \/ Disconnect \/ BackoffStart \/ BackoffDone
    \/ PollTop \/ Recon0 \/ CycleEnd \/ SleepDone

SpecStop ==
    /\ InitWith(<<"A">>, 0, {})
    /\ [][NextHealth]_vars
    /\ WF_vars(WorkerLocal)
    /\ WF_vars(Tick)
\* Synchronous reads: one tag, the UI thread calls read_value at any time,
\* stop().  The worker's own steps and the clock are fair, and the event
\* loop runs a scheduled _read_async whenever it keeps getting the chance.
NextRead ==
    \/ NextHealth
    \/ \E t \in Tags : ReadValue(t)
    \/ ReadAsyncDone

SpecRead ==
    /\ InitWith(<<"A">>, 0, {})
    /\ [][NextRead]_vars
    /\ WF_vars(WorkerLocal)
    /\ WF_vars(Tick)
    /\ SF_vars(ReadAsyncDone)
\* The popup: one tag, a connection that stays up, ScadaDialog and an open
\* popup connected to the client's signals, optimistic writes from the
\* popup, their coroutines and the failure handler.
NextPopup ==
    \/ WorkerConnected
    \/ \E t \in Tags, v \in Values : OnToggleAlarm(t, v)
    \/ WriteValueStamp
    \/ \E i \in 1..MaxWrites : WriteAsyncOk(i)
    \/ \E i \in 1..MaxWrites : WriteAsyncFail(i)
    \/ OnWriteFailed
    \/ Tick

SpecPopup ==
    /\ InitUI(<<"A">>, MaxWrites, {}, {"_on_opcua_update", "_on_write_failed"}, {})
    /\ [][NextPopup]_vars
\* Partial read failures: two tags on a connection that stays up, any read
\* may raise, one write to the first tag whose coroutine stays pending.
NextPartial ==
    \/ WorkerConnected
    \/ ReadFail
    \/ \E v \in Values : WriteValue(tag_list[1], v)
    \/ WriteValueStamp
    \/ Tick

SpecPartial == InitWith(<<"A", "B">>, OutageWrites, {}) /\ [][NextPartial]_vars
\* The dialog: two tags, each the alarm status of a room, ScadaDialog's
\* slots connected to the client's signals, every network outcome, stop(),
\* the mute button, no writes.
NextUI ==
    \/ WorkerNoWrites
    \/ Stop
    \/ \E t \in Tags, v \in Values : ServerChange(t, v)
    \/ Tick
    \/ MuteClicked

SpecUI ==
    /\ InitUI(<<"A", "B">>, 0, {},
              {"_on_opcua_update", "_on_connection_lost", "_on_connection_restored"},
              {"A", "B"})
    /\ [][NextUI]_vars
\* ================================================================ claims
\* what a step did, read off the observers
LostSignalled ==
    last_health' = "lost" /\ (last_health # "lost" \/ (dup_health' /\ ~dup_health))
RestoredSignalled ==
    last_health' = "restored" /\ (last_health # "restored" \/ (dup_health' /\ ~dup_health))
HealthSignalled == last_health' # last_health \/ dup_health' # dup_health

\* the pair (cached_value, write_time) the cycle loaded is the pending write
\* as it stands now, and no write_value call is half-way through
PendingInSync ==
    /\ caller.at = "idle"
    /\ CurTag \in DOMAIN current_values
    /\ current_values[CurTag] = cached_value
    /\ CurTag \in DOMAIN write_timestamps
    /\ write_timestamps[CurTag] = write_time

\* C1 (as claimed): a write of B from a settled state (server value and last
\* emitted value both A # B, nothing pending) that the server confirms has,
\* at the end of the confirming cycle, appeared in exactly one batch of the
\* poll loop, and the tag has no pending entry.
C1_ExactlyOneBatch ==
    \A t \in DOMAIN clean_write :
        ( /\ pc = "sleep"
          /\ caller.at = "idle"
          /\ clean_write[t] # None
          /\ t \notin DOMAIN current_values
          /\ last_emitted_values[t] = clean_write[t] )
        => emit_count[t] = 1

\* C2 (as claimed): a poll cycle records a tag in its batch only when the
\* recorded value differs from the last emitted value of the tag.
C2_OnlyChangedValuesEmitted ==
    [][ \A t \in DOMAIN last_emitted_values :
          (t \in DOMAIN updates' /\ t \notin DOMAIN updates)
          => last_emitted_values[t] # updates'[t] ]_vars

\* C3 (as claimed): write_value(t, v) with nothing pending for t and both the
\* server value and the last emitted value equal to v creates no pending entry.
C3_IdempotentWriteNoEntry ==
    [][ \A t \in DOMAIN last_emitted_values :
          ( /\ writes_left' < writes_left
            /\ t \notin DOMAIN current_values
            /\ t \in DOMAIN current_values' )
          => ~(server[t] = current_values'[t]
               /\ last_emitted_values[t] = current_values'[t]) ]_vars

\* C4: a pending write the server does not confirm is removed from
\* current_values by exactly those cycles whose clock is more than
\* write_timeout past the submission; the same cycle removes the timestamp
\* and records the polled server value, which is not the written value.
C4_TimeoutAbandons ==
    [][ /\ ( pc = "recon2" /\ pc' # "recon2" /\ PendingInSync
             /\ server_value # cached_value )
           => ( (current_time - write_timestamps[CurTag] > write_timeout)
                <=> CurTag \notin DOMAIN current_values' )
        /\ ( pc = "recon3" /\ pc' # "recon3" /\ server_value # cached_value )
           => /\ CurTag \notin DOMAIN write_timestamps'
              /\ CurTag \in DOMAIN updates'
              /\ updates'[CurTag] = server_value
              /\ updates'[CurTag] # cached_value ]_vars

C4_Witness ==
    /\ pc = "recon3"
    /\ caller.at = "idle"
    /\ server_value # cached_value
    /\ current_time - write_time > write_timeout

\* C5: a write_value over a pending write of another value leaves the one
\* entry holding the new value; a later cycle that reads the superseded value
\* from the server, within write_timeout of the second submission, keeps the
\* entry and takes the new value as the tag's candidate.
C5_Supersede ==
    [][ /\ \A t \in DOMAIN superseded :
             ( /\ writes_left' < writes_left
               /\ t \in DOMAIN current_values
               /\ caller'.at = "stamp" /\ caller'.tag = t
               /\ caller'.value # current_values[t] )
             => /\ DOMAIN current_values' = DOMAIN current_values
                /\ current_values'[t] = caller'.value
        /\ ( /\ pc = "recon2" /\ pc' # "recon2" /\ PendingInSync
             /\ superseded[CurTag] # None
             /\ server_value = superseded[CurTag]
             /\ current_time - write_timestamps[CurTag] <= write_timeout )
           => /\ CurTag \in DOMAIN current_values'
              /\ current_values'[CurTag] = cached_value
              /\ last_emitted_values'[CurTag] = cached_value
              /\ CurTag \in DOMAIN updates' => updates'[CurTag] = cached_value ]_vars

C5_Witness ==
    /\ pc = "recon2"
    /\ PendingInSync
    /\ superseded[CurTag] # None
    /\ server_value = superseded[CurTag]
    /\ cached_value # server_value

\* C6: a cycle that reads a tag with no pending write (none found, or the one
\* found settled by this cycle) leaves last_emitted_values at the server value
\* it read, and records no other value for the tag in its batch.
C6_NoPendingFollowsServer ==
    [][ ( \/ pc = "recon0" /\ pc' # "recon0" /\ CurTag \notin DOMAIN current_values
          \/ pc = "recon3" /\ pc' # "recon3" )
        => /\ last_emitted_values'[CurTag] = server_value
           /\ CurTag \in DOMAIN updates' => updates'[CurTag] = server_value ]_vars

C6_Witness ==
    /\ pc = "recon0"
    /\ CurTag \notin DOMAIN current_values
    /\ last_emitted_values[CurTag] # None
    /\ last_emitted_values[CurTag] # server_value

\* C7: the poll loop signals connection_lost in exactly those cycles that
\* read no tag and follow two cycles of the same connection that read none
\* either; a cycle that reads a tag resets poll_fail_count to zero.
C7_LostAfterThreeFailedCycles ==
    [][ (pc = "cycle_end" /\ pc' # "cycle_end")
        => /\ LostSignalled <=> (cycle_reads = 0 /\ fail_run = 2)
           /\ cycle_reads = 1 => poll_fail_count' = 0 ]_vars

C7_Witness ==
    /\ pc = "outer"
    /\ last_health = "lost"
    /\ fail_run = 3
    /\ conn_reads = 1

\* C8: no health signal is emitted twice in a row, and every emission comes
\* with a change of is_connected.
C8_HealthEdgeTriggered ==
    [][ (HealthSignalled => is_connected' # is_connected) /\ ~dup_health' ]_vars

C8_Witness ==
    /\ pc = "poll"
    /\ last_health = "restored"
    /\ is_connected
    /\ connection_fail_count > 0
    /\ poll_fail_count = 0
    /\ conn_reads = 0

\* C9 (as claimed): connection_restored is signalled only when a tag has been
\* read successfully on the new connection.
C9_RestoredOnlyAfterRead ==
    [][ RestoredSignalled => conn_reads' = 1 ]_vars

\* C9 (amended): connection_restored is signalled by the step in which
\* connect() returns, before any tag is read on the new connection, and that
\* step always leaves is_connected true.
C9_RestoredOnConnect ==
    [][ /\ RestoredSignalled => (pc = "connect" /\ pc' = "poll" /\ conn_reads' = 0)
        /\ (pc = "connect" /\ pc' = "poll") => is_connected' ]_vars

C9_Witness ==
    /\ pc = "outer"
    /\ last_health = "lost"
    /\ fail_run = 3
    /\ conn_reads = 0

\* C10 (as claimed): once connection_lost has been signalled, the next
\* connect attempt is made only after the backoff sleep.
C10_BackoffBeforeReconnect ==
    [][ (pc = "outer" /\ pc' = "connect" /\ last_health = "lost")
        => slept_backoff ]_vars

\* C11 (as claimed): when the worker replaces self.client by a new Client,
\* the session it replaces is not one on which connect() succeeded and
\* disconnect() was never attempted.
C11_ClosedBeforeReplaced ==
    [][ (pc = "outer" /\ pc' = "connect") => client # "connected" ]_vars

\* C13: a successful connect leaves last_emitted_values at None for every
\* resolved tag, and a cycle that reads a tag whose last emitted value is None
\* (no write pending) puts the tag with the value read into its batch.
C13_ReemitAfterReconnect ==
    [][ /\ (pc = "connect" /\ pc' = "poll")
           => \A t \in DOMAIN nodes' : last_emitted_values'[t] = None
        /\ ( /\ pc = "recon0" /\ pc' # "recon0"
             /\ CurTag \notin DOMAIN current_values
             /\ last_emitted_values[CurTag] = None )
           => /\ CurTag \in DOMAIN updates'
              /\ updates'[CurTag] = server_value ]_vars

\* the tag is read for the first time after a reconnect and the server holds
\* the value that was emitted before the outage
C13_Witness ==
    /\ pc = "recon0"
    /\ CurTag \in DOMAIN before_outage
    /\ last_emitted_values[CurTag] = None
    /\ before_outage[CurTag] = server_value


C14_NewerWriteSurvives ==
    [][ /\ ( /\ pc = "recon2"
             /\ CurTag \in DOMAIN current_values
             /\ CurTag \notin DOMAIN current_values' )
           => current_values[CurTag] = cached_value
        /\ ( /\ pc = "recon3" /\ pc' # "recon3"
             /\ CurTag \in DOMAIN current_values )
           => CurTag \in DOMAIN write_timestamps' ]_vars

\* C15 (as claimed): a cycle abandons an unconfirmed pending value only when
\* the timestamp recorded by that value's own write_value call is more than
\* write_timeout old; a value whose call has not recorded its timestamp yet
\* is not abandoned.
C15_TimeoutFromOwnSubmission ==
    [][ ( /\ pc = "recon2"
          /\ CurTag \in DOMAIN current_values
          /\ CurTag \notin DOMAIN current_values'
          /\ current_values[CurTag] = cached_value
          /\ server_value # cached_value )
        => /\ ~(caller.at = "stamp" /\ caller.tag = CurTag)
           /\ CurTag \in DOMAIN write_timestamps
           /\ current_time - write_timestamps[CurTag] > write_timeout ]_vars


\* C16 (as claimed): at the end of a poll cycle no entry of current_values is
\* left whose timestamp was more than write_timeout old when the cycle began
\* (no write_value call being half-way through).
C16_NoEntryPastWindow ==
    [][ (pc = "cycle_end" /\ pc' # "cycle_end")
        => \A t \in DOMAIN current_values' :
             ~( /\ caller.at = "idle"
                /\ t \in DOMAIN write_timestamps
                /\ current_time - write_timestamps[t] > write_timeout ) ]_vars

\* C17 (as claimed): when a connect succeeds, current_values and
\* write_timestamps hold no entry.
C17_PendingDiscardedOnReconnect ==
    [][ (pc = "connect" /\ pc' = "poll")
        => /\ DOMAIN current_values' = {}
           /\ DOMAIN write_timestamps' = {} ]_vars


\* C18 (as claimed): while the worker holds a connected session, every handle
\* in self.nodes was obtained on that session.
C18_NoStaleHandle ==
    client = "connected" => \A t \in DOMAIN nodes : nodes[t] = "cur"


C20_StopTerminates ==
    ~running ~> (pc = "done" \/ now = MaxTime)


\* C21 (as claimed): read_value always returns to its caller: a caller that
\* waits in future.result() is eventually released, in every worker state.
C21_ReadValueReturns == (caller.at = "read") ~> (caller.at = "idle")

\* C22: a failed asynchronous write emits write_failed_signal exactly once,
\* with the tag of the write: the step of _write_async that fails appends
\* one event carrying that tag, ends the coroutine without scheduling
\* another (no retry) and leaves current_values and write_timestamps as
\* they are; and no other step emits the signal.
C22_FailureSignalledOnce ==
    [][ /\ \A i \in 1..MaxWrites :
             WriteAsyncFail(i) =>
                /\ write_failed' = Append(write_failed, pending_writes[i].tag)
                /\ Len(pending_writes') = Len(pending_writes) - 1
                /\ UNCHANGED sharedDicts
        /\ Len(write_failed') > Len(write_failed) =>
             \E i \in 1..MaxWrites : WriteAsyncFail(i) ]_vars

\* a failure was signalled and the pending entry of its tag is still there
C22_Witness ==
    /\ write_failed # <<>>
    /\ write_failed[1] \in DOMAIN current_values
    /\ write_failed[1] \in DOMAIN write_timestamps

\* C25 (as claimed): once the pending entry of a failed optimistic write is
\* gone, the next poll cycle that reads the tag puts the server value in its
\* batch whenever the UI shows something else, so that latest_values
\* returns to the server value.
C25_RevertAfterFailure ==
    [][ ( /\ pc = "recon0"
          /\ pc' # "recon0"
          /\ CurTag \notin DOMAIN current_values
          /\ CurTag \in DOMAIN ui.latest_values
          /\ ui.latest_values[CurTag] # server_value )
        => ( /\ CurTag \in DOMAIN updates'
             /\ updates'[CurTag] = server_value ) ]_vars

\* C23: a read failure of one tag does not stop the poll cycle.  The step
\* that handles the failure leaves the batch, last_emitted_values and the
\* pending entries as they are (the failed tag is not in the batch) and
\* moves on to the next resolved tag if there is one; and the cycle is
\* counted as failed exactly when no tag at all was read in it.
C23_ReadFailureIsolated ==
    [][ /\ ReadFail =>
             /\ CurTag \notin DOMAIN updates'
             /\ UNCHANGED <<updates, last_emitted_values, sharedDicts>>
             /\ IF idx < Len(NodeSeq)
                  THEN pc' = "read" /\ idx' = idx + 1
                  ELSE pc' = "cycle_end"
        /\ (pc = "cycle_end" /\ pc' # "cycle_end") =>
             /\ (cycle_reads = 0) => poll_fail_count' = poll_fail_count + 1
             /\ (cycle_reads # 0) => poll_fail_count' = 0 ]_vars

\* the cycle is over: the read of A failed while A had a pending write, B
\* was read and its value is in the batch
C23_Witness ==
    /\ pc = "cycle_end"
    /\ connection_fail_count > 0
    /\ poll_success
    /\ "A" \in DOMAIN current_values
    /\ "A" \notin DOMAIN updates
    /\ "B" \in DOMAIN updates

\* C24: a poll cycle delivers its batch as one update_signal event at the
\* end of the cycle.  What ScadaDialog has received changes only in the step
\* that ends a cycle, that step delivers every value the cycle selected for
\* emission (none is lost when the cycle ends in the break), and the slot
\* is never called with an empty batch.
C24_OneWholeBatch ==
    [][ /\ ~ui'.empty_batches
        /\ ui'.latest_values # ui.latest_values => pc = "cycle_end"
        /\ (pc = "cycle_end" /\ pc' # "cycle_end") =>
              \A t \in DOMAIN updates :
                  /\ t \in DOMAIN ui'.latest_values
                  /\ ui'.latest_values[t] = updates[t] ]_vars

\* a cycle selected both tags and its batch has been delivered
C24_Witness ==
    /\ pc = "sleep"
    /\ DOMAIN updates = {"A", "B"}
    /\ ui.latest_values = updates
    /\ ~ui.empty_batches

\* C26 (as claimed): a new alarm (a room's alarm status turning true, or
\* the loss of the connection) leaves the dialog unmuted with the alarm
\* sound playing, also when an earlier alarm is still active.
C26_NewAlarmLiftsMute ==
    [][ ( \/ \E r \in DOMAIN ui.alarm_status :
                ~ui.alarm_status[r] /\ ui'.alarm_status[r]
          \/ ~ui.is_disconnected /\ ui'.is_disconnected )
        => ( ~ui'.is_muted /\ ui'.playing ) ]_vars

\* C27: until connect() has succeeded for the first time (no tag has been
\* resolved yet) no health signal has been emitted, however many attempts
\* failed, and ScadaDialog.is_disconnected is still False; the first health
\* signal of a behaviour is connection_restored_signal.
C27_SilentUntilFirstConnect ==
    [][ /\ nodes' = EmptyDict =>
             (last_health' = "none" /\ ~is_connected' /\ ~ui'.is_disconnected)
        /\ (last_health = "none" /\ last_health' # "none") =>
             (last_health' = "restored" /\ pc = "connect" /\ pc' = "poll") ]_vars

\* the second connect attempt has failed, the server was never reached, and
\* the dialog shows neither a disconnection nor an alarm
C27_Witness ==
    /\ pc = "backoff_sleep"
    /\ fail_streak >= 2
    /\ nodes = EmptyDict
    /\ last_health = "none"
    /\ ~ui.is_disconnected
    /\ ~ui.has_alarm

\* the positions of the worker inside the poll loop
InPollLoop ==
    pc \in {"poll", "read", "recon0", "recon1", "recon2", "recon3", "cycle_end", "sleep"}

\* C28: is_connected is True whenever a poll cycle starts; a step of the
\* poll loop that sets it to False leaves the loop at once; and
\* connection_restored_signal is emitted only by the step in which connect()
\* returns, never from inside the poll loop.
C28_ConnectedInPollLoop ==
    [][ /\ (pc = "poll" /\ pc' \in {"read", "cycle_end"}) => is_connected
        /\ (InPollLoop /\ is_connected /\ ~is_connected') => pc' = "outer"
        /\ RestoredSignalled => (~InPollLoop /\ pc = "connect") ]_vars

\* a cycle that read a tag ends with connection_fail_count > 0 on a
\* connection that was restored: the poll loop's own restore branch is
\* evaluated and finds is_connected already True
C28_Witness ==
    /\ pc = "cycle_end"
    /\ poll_success
    /\ connection_fail_count > 0
    /\ is_connected
    /\ last_health = "restored"
    /\ fail_streak = 0
    /\ slept_backoff = FALSE

\* C29: write_value(t, v) for a tag without an entry in self.nodes, or
\* before the thread created its client and event loop, does nothing: no
\* pending entry, no timestamp, no coroutine scheduled, no failure
\* signalled, and the caller is back at once.
C29_WriteValueNoOp ==
    [][ \A t \in Tags, v \in Values :
          ( /\ WriteValue(t, v)
            /\ (t \notin DOMAIN nodes \/ client = "none" \/ pc = "init") )
          => ( /\ UNCHANGED <<sharedDicts, pending_writes, write_failed, server>>
               /\ caller' = IdleCaller ) ]_vars

\* write_value was called before the thread was started and left no trace
C29_Witness ==
    /\ pc = "init"
    /\ writes_left < OutageWrites
    /\ caller = IdleCaller
    /\ current_values = EmptyDict
    /\ write_timestamps = EmptyDict
    /\ pending_writes = <<>>

\* the worker is inside the for loop of a poll cycle or at its end
CycleInProgress ==
    pc \in {"read", "recon0", "recon1", "recon2", "recon3", "cycle_end"}

\* C30: once running is False the worker starts no connect attempt, no poll
\* cycle and no backoff sleep.  Only a cycle already in progress goes on,
\* and ScadaDialog receives a batch only from the step that ends it, so at
\* most one more; from the test of the outer loop the worker only exits.
C30_NothingNewAfterStop ==
    [][ ~running =>
          /\ pc' = "connect" => pc = "connect"
          /\ pc' = "backoff_sleep" => pc = "backoff_sleep"
          /\ pc = "poll" => pc' \in {"poll", "outer"}
          /\ pc = "outer" => pc' \in {"outer", "done"}
          /\ CycleInProgress' => CycleInProgress
          /\ ui'.latest_values # ui.latest_values =>
                (CycleInProgress /\ ~CycleInProgress') ]_vars

\* stop() was called while a cycle was reading the second tag; the cycle
\* has selected a value and is about to end
C30_Witness ==
    /\ ~running
    /\ pc = "cycle_end"
    /\ idx = 2
    /\ updates # EmptyDict
    /\ ui.latest_values = EmptyDict
====
